---- MODULE Spec2Model ----
(***************************************************************************)
(* A model of osuT5/dataset/ors_dataset.py: the interleaving multiplexer,  *)
(* the frame segmenter, the event/frame aligner, the sequence windower,    *)
(* the time normalizer, the token packer and the per-beatmap driver.       *)
(***************************************************************************)
EXTENDS Integers, Sequences, FiniteSets, TLC

VARIABLES
    \* InterleavingBeatmapDatasetIterable
    workers,        \* self.workers: the live sub-iterators, each with what it has left to yield
    index,          \* self.index
    feeds,          \* what each sub-iterator held at construction (never written)
    yielded,        \* the items __next__ has returned so far, in order
    result,         \* how the last __next__ call ended: "none", "item", "stop", "error"
    \* configuration shared by every stage
    args,           \* self.args: the DictConfig
    \* _get_frames, get_event_indices, _create_sequences
    samples,        \* the audio samples handed to _get_frames (1 marks a sample, 0 is padding)
    frames,         \* frames returned by _get_frames
    frame_times,    \* frame_times returned by _get_frames
    events,         \* the parsed events handed to _create_sequences
    indices,        \* what get_event_indices(events) returned: [start, end]
    offset,         \* the offset _create_sequences drew
    sequences,      \* the list _create_sequences returned
    wpc,            \* position of the windowing run: "start", "framed", "windowed"
    \* _trim_time_shifts.process
    raw_events,     \* an event list as the windower cut it
    start_time,     \* the window's start time, in milliseconds
    once,           \* process(raw_events, start_time)
    twice,          \* process(once, 0)
    npc,            \* position of the normalization run: "start", "normalized", "renormalized"
    \* BeatmapDatasetIterable and its _get_next_beatmap loop
    test,                   \* self.test
    shared,                 \* self.shared: None, or the namespace holding current_train_step
    class_dropout_prob,     \* self.class_dropout_prob, in percent
    diff_dropout_prob,      \* self.diff_dropout_prob, in percent
    add_pre_tokens,         \* self.add_pre_tokens
    add_empty_sequences,    \* self.add_empty_sequences
    window,                 \* the sequence the loop body last took from the list
    example,                \* that sequence after _pad_and_split_token_sequence
    locals,                 \* n, m, o, start_index and the jitter of the last packing
    ipc                     \* "loop", "yielded" (at the yield) or "skipped" (at the continue)

muxVars == <<workers, index, feeds, yielded, result>>
winVars == <<samples, frames, frame_times, events, indices, offset, sequences, wpc>>
normVars == <<raw_events, start_time, once, twice, npc>>
iterVars == <<test, shared, class_dropout_prob, diff_dropout_prob, add_pre_tokens,
              add_empty_sequences, window, example, locals, ipc>>

vars == <<muxVars, args, winVars, normVars, iterVars>>

----------------------------------------------------------------------------
(* Module constants of ors_dataset.py *)

MILISECONDS_PER_SECOND == 1000
\* STEPS_PER_MILLISECOND = 0.1, kept as its inverse
MILLISECONDS_PER_STEP == 10
LABEL_IGNORE_ID == -100

----------------------------------------------------------------------------
(* Configuration *)

\* A configuration the stages that are not under study run with. sample_rate
\* is one sample per millisecond, so that frame i starts at i * hop_length ms.
ArgsDefault ==
    [src_seq_len |-> 3, tgt_seq_len |-> 8, sample_rate |-> MILISECONDS_PER_SECOND,
     hop_length |-> 2, special_token_len |-> 2,
     class_dropout_prob |-> 0, diff_dropout_prob |-> 0,
     add_pre_tokens |-> FALSE, add_pre_tokens_at_step |-> -1, max_pre_token_len |-> 0,
     add_empty_sequences |-> FALSE, add_empty_sequences_at_step |-> -1,
     add_gd_context |-> FALSE, center_pad_decoder |-> FALSE,
     diff_token_index |-> 0, style_token_index |-> 1, timing_random_offset |-> 0]

\* the variables of a stage that a specification does not run
MuxIdle ==
    /\ workers = <<>> /\ index = 0 /\ feeds = <<>> /\ yielded = <<>> /\ result = "none"
WinIdle ==
    /\ samples = <<>> /\ frames = <<>> /\ frame_times = <<>> /\ events = <<>>
    /\ indices = [start |-> <<>>, end |-> <<>>] /\ offset = 0 /\ sequences = <<>>
    /\ wpc = "idle"

NormIdle ==
    /\ raw_events = <<>> /\ start_time = 0 /\ once = <<>> /\ twice = <<>> /\ npc = "idle"

NoLocals == [n |-> 0, m |-> 0, o |-> 0, start_index |-> 0, jitter |-> 0]
NoShared == [is_none |-> TRUE, current_train_step |-> 0]
IterIdle ==
    /\ test = FALSE /\ shared = NoShared
    /\ class_dropout_prob = 0 /\ diff_dropout_prob = 0
    /\ add_pre_tokens = FALSE /\ add_empty_sequences = FALSE
    /\ window = <<>> /\ example = <<>> /\ locals = NoLocals /\ ipc = "idle"

----------------------------------------------------------------------------
(* Generic helpers *)

Min(a, b) == IF a <= b THEN a ELSE b
Max(a, b) == IF a >= b THEN a ELSE b

RemoveAt(s, i) == SubSeq(s, 1, i - 1) \o SubSeq(s, i + 1, Len(s))

RECURSIVE SeqsUpTo(_, _)
SeqsUpTo(S, n) ==
    IF n = 0 THEN {<<>>}
    ELSE LET shorter == SeqsUpTo(S, n - 1)
         IN  shorter \cup {Append(s, x) : s \in {t \in shorter : Len(t) = n - 1}, x \in S}

RECURSIVE SumLen(_)
SumLen(ss) == IF ss = <<>> THEN 0 ELSE Len(Head(ss)) + SumLen(Tail(ss))

RECURSIVE SelectSeq2(_, _)
\* the subsequence of s whose first component is w
SelectSeq2(s, w) ==
    IF s = <<>> THEN <<>>
    ELSE IF Head(s)[1] = w THEN <<Head(s)>> \o SelectSeq2(Tail(s), w)
    ELSE SelectSeq2(Tail(s), w)

----------------------------------------------------------------------------
(* InterleavingBeatmapDatasetIterable *)

MaxWorkers == 3     \* largest cycle_length explored
MaxItems == 2       \* most items one sub-iterator holds

\* item k of sub-iterator w
Feed(w, n) == [k \in 1..n |-> <<w, k>>]

\* num = len(self.workers): how many times __next__ tries a worker
NumTriesOnce(ws) == 1
NumTries(ws) == Len(ws)

\* the for loop of __next__: try the worker at index; on its StopIteration
\* remove it and try again, at most `tries` times
RECURSIVE NextLoop(_, _, _)
NextLoop(ws, idx, tries) ==
    IF tries = 0
    THEN [workers |-> ws, index |-> idx, status |-> "stop", item |-> <<>>]
    ELSE IF Len(ws) = 0
    THEN \* self.index % len(self.workers) divides by zero: not a StopIteration
         [workers |-> ws, index |-> idx, status |-> "error", item |-> <<>>]
    ELSE LET i == idx % Len(ws)
             w == ws[i + 1]
         IN  IF Len(w.rest) > 0
             THEN [workers |-> [ws EXCEPT ![i + 1].rest = Tail(w.rest)],
                   index |-> i + 1, status |-> "item", item |-> <<Head(w.rest)>>]
             ELSE NextLoop(RemoveAt(ws, i + 1), i, tries - 1)

MuxInit ==
    /\ \E k \in 1..MaxWorkers :
       \E lens \in [1..k -> 0..MaxItems] :
          /\ feeds = [w \in 1..k |-> Feed(w, lens[w])]
          /\ workers = [w \in 1..k |-> [id |-> w, rest |-> Feed(w, lens[w])]]
    /\ index = 0
    /\ yielded = <<>>
    /\ result = "none"
    /\ args = ArgsDefault
    /\ WinIdle
    /\ NormIdle
    /\ IterIdle

\* one call of __next__
MuxNext ==
    LET r == NextLoop(workers, index, NumTries(workers))
    IN  /\ workers' = r.workers
        /\ index' = r.index
        /\ yielded' = yielded \o r.item
        /\ result' = r.status
        /\ UNCHANGED <<feeds, args, winVars, normVars, iterVars>>

NextMux == MuxNext

SpecMux == MuxInit /\ [][NextMux]_vars

Total == SumLen(feeds)

\* every sub-iterator's items come out in its own order, none twice
MuxInv ==
    /\ result # "error"
    /\ \A w \in 1..Len(feeds) :
          \E n \in 0..Len(feeds[w]) : SelectSeq2(yielded, w) = SubSeq(feeds[w], 1, n)
    /\ Len(yielded) <= Total
    /\ result = "stop" => Len(yielded) = Total

\* a call made before the T-th item returns an item, a call after it stops
MuxCallOk ==
    /\ Len(yielded) < Total => result' = "item" /\ Len(yielded') = Len(yielded) + 1
    /\ Len(yielded) = Total => result' = "stop" /\ yielded' = yielded

\* C1: k >= 1 finite sub-iterators with T items in total: the calls of next()
\* return every item exactly once, each sub-iterator's in its own order, the
\* call after the T-th item and every later one raise end-of-stream, and no
\* call raises any other error.
C1_MuxYieldsAllThenStops == []MuxInv /\ [][MuxCallOk]_vars

C1_Witness ==
    /\ result = "stop"
    /\ Len(feeds) = 3
    /\ feeds[1] = <<>>
    /\ Len(feeds[2]) = 1
    /\ Len(feeds[3]) = 2
    /\ Len(yielded) = 3

----------------------------------------------------------------------------
(* Events, Python slicing *)

AnchorTypes == {"BEZIER_ANCHOR", "PERFECT_ANCHOR", "CATMULL_ANCHOR", "RED_ANCHOR"}

Ev(t, v) == [type |-> t, value |-> v]
TS(v) == Ev("TIME_SHIFT", v)

\* s[a:b] of Python, a and b 0-based and possibly negative
PySlice(s, a, b) ==
    LET n == Len(s)
        lo == IF a < 0 THEN Max(a + n, 0) ELSE Min(a, n)
        hi == IF b < 0 THEN Max(b + n, 0) ELSE Min(b, n)
    IN  SubSeq(s, lo + 1, hi)

\* s[i] of Python for 0 <= i < len(s)
At(s, i) == s[i + 1]

----------------------------------------------------------------------------
(* BeatmapDatasetIterable.__init__ *)

frame_seq_len == args.src_seq_len - 1
min_pre_token_len == 4
pre_token_len == args.tgt_seq_len \div 2

----------------------------------------------------------------------------
(* _get_frames *)

\* np.pad(samples, [0, hop_length - len(samples) % hop_length])
PadWidth(n, hop) == hop - (n % hop)

\* frame_times[i] = i / (sample_rate / hop_length / MILISECONDS_PER_SECOND)
FrameTime(i) == (i * args.hop_length * MILISECONDS_PER_SECOND) \div args.sample_rate

get_frames(smp) ==
    LET hop == args.hop_length
        padded == smp \o [i \in 1..PadWidth(Len(smp), hop) |-> 0]
        fr == [f \in 1..(Len(padded) \div hop) |-> SubSeq(padded, (f - 1) * hop + 1, f * hop)]
    IN  [frames |-> fr, frame_times |-> [f \in 1..Len(fr) |-> FrameTime(f - 1)]]

----------------------------------------------------------------------------
(* _create_sequences and its get_event_indices *)

\* the while loop: advance the cursor while the tracked time is before the
\* frame time; event_time starts at -inf (minus_inf)
RECURSIVE Advance(_, _, _)
Advance(events2, c, current_time) ==
    IF (c.minus_inf \/ c.event_time < current_time) /\ c.event_index < Len(events2)
    THEN LET e == At(events2, c.event_index)
             shift == e.type = "TIME_SHIFT"
         IN  Advance(events2,
                     [event_index |-> c.event_index + 1,
                      event_time |-> IF shift THEN e.value ELSE c.event_time,
                      minus_inf |-> c.minus_inf /\ ~shift],
                     current_time)
    ELSE c

\* start_indices.append(event_index - 1)
StartOfCursorNoStep(c) == c.event_index
StartOfCursor(c) == c.event_index - 1

\* the for loop over frame_times
RECURSIVE StartIndices(_, _, _)
StartIndices(events2, ftimes, c) ==
    IF ftimes = <<>> THEN <<>>
    ELSE LET c2 == Advance(events2, c, Head(ftimes))
         IN  <<StartOfCursor(c2)>> \o StartIndices(events2, Tail(ftimes), c2)

get_event_indices(events2, ftimes) ==
    LET start_indices ==
            StartIndices(events2, ftimes,
                         [event_index |-> 0, event_time |-> 0, minus_inf |-> TRUE])
    IN  [start |-> start_indices,
         end |-> PySlice(start_indices, 1, Len(start_indices)) \o <<Len(events2)>>]

\* the guide beatmap handed to _create_sequences, or None
NoOther == [is_none |-> TRUE, events |-> <<>>, beatmap_idx |-> 0, difficulty |-> 0]
Other(ev, idx, diff) == [is_none |-> FALSE, events |-> ev, beatmap_idx |-> idx, difficulty |-> diff]

\* range(offset, n_frames, frame_seq_len)
WindowStartsFromZero(off, n_frames) ==
    [k \in 1..((n_frames + frame_seq_len - 1) \div frame_seq_len) |-> (k - 1) * frame_seq_len]
WindowStarts(off, n_frames) ==
    IF off >= n_frames THEN <<>>
    ELSE [k \in 1..((n_frames - off + frame_seq_len - 1) \div frame_seq_len) |->
             off + (k - 1) * frame_seq_len]

\* the body of the for loop: one sequence. frame_start_idx and frame_end_idx
\* are kept in the record to state the frame range of the window.
\* frame_pre_idx: the first frame of the window before the one at frame_start_idx
FramePreIdxAtZero(frame_start_idx) == 0
FramePreIdx(frame_start_idx) == Max(frame_start_idx - frame_seq_len, 0)

OneSequence(fr, ftimes, ev, ix, beatmap_idx, difficulty, other, oix, frame_start_idx) ==
    LET frame_end_idx == Min(frame_start_idx + frame_seq_len, Len(fr))
        target_start_idx == At(ix.start, frame_start_idx)
        target_end_idx == At(ix.end, frame_end_idx - 1)
        frame_pre_idx == FramePreIdx(frame_start_idx)
        target_pre_idx == At(ix.start, frame_pre_idx)
        base == [time |-> At(ftimes, frame_start_idx),
                 frames |-> PySlice(fr, frame_start_idx, frame_end_idx),
                 events |-> PySlice(ev, target_start_idx, target_end_idx),
                 beatmap_idx |-> beatmap_idx,
                 difficulty |-> difficulty,
                 frame_start_idx |-> frame_start_idx,
                 frame_end_idx |-> frame_end_idx]
        withPre == IF args.add_pre_tokens \/ args.add_pre_tokens_at_step >= 0
                   THEN base @@ [pre_events |-> PySlice(ev, target_pre_idx, target_start_idx)]
                   ELSE base
    IN  IF ~other.is_none
        THEN withPre @@
             [other_events |-> PySlice(other.events, At(oix.start, frame_start_idx),
                                       At(oix.end, frame_end_idx - 1)),
              other_beatmap_idx |-> other.beatmap_idx,
              other_difficulty |-> other.difficulty]
        ELSE withPre

create_sequences(fr, ftimes, ev, beatmap_idx, difficulty, other, off) ==
    LET ix == get_event_indices(ev, ftimes)
        oix == IF other.is_none THEN ix ELSE get_event_indices(other.events, ftimes)
        starts == WindowStarts(off, Len(fr))
    IN  [k \in 1..Len(starts) |->
            OneSequence(fr, ftimes, ev, ix, beatmap_idx, difficulty, other, oix, starts[k])]

MaxSamples == 4     \* longest sample array
MaxHop == 2         \* largest hop_length
MaxSrcSeqLen == 3   \* largest src_seq_len (frame_seq_len is one less)
MaxEvents == 3      \* longest event list of a beatmap

\* event times in milliseconds, before and inside the audio
EventTimes == {-1, 0, 2}
EventAlphabet == {TS(t) : t \in EventTimes} \cup {Ev("CIRCLE", 0), Ev("RED_ANCHOR", 0)}
EventLists == SeqsUpTo(EventAlphabet, MaxEvents)
Others == {NoOther, Other(<<TS(0), Ev("CIRCLE", 0), TS(2)>>, 1, 1)}

WinArgs ==
    {[ArgsDefault EXCEPT !.hop_length = h, !.src_seq_len = n, !.add_pre_tokens = p] :
        h \in 1..MaxHop, n \in 2..MaxSrcSeqLen, p \in BOOLEAN}

WinInit ==
    /\ MuxIdle
    /\ NormIdle
    /\ IterIdle
    /\ args \in WinArgs
    /\ samples \in {[i \in 1..L |-> 1] : L \in 0..MaxSamples}
    /\ frames = <<>> /\ frame_times = <<>> /\ events = <<>>
    /\ indices = [start |-> <<>>, end |-> <<>>] /\ offset = 0 /\ sequences = <<>>
    /\ wpc = "start"

\* frames, frame_times = self._get_frames(audio_samples)
GetFrames ==
    /\ wpc = "start"
    /\ LET r == get_frames(samples)
       IN  /\ frames' = r.frames
           /\ frame_times' = r.frame_times
    /\ wpc' = "framed"
    /\ UNCHANGED <<muxVars, normVars, iterVars, args, samples, events, indices, offset, sequences>>

\* sequences = self._create_sequences(...), on the events the parser returned
\* and with the offset random.randint(0, self.frame_seq_len) drew
CreateSequences ==
    /\ wpc = "framed"
    /\ \E ev \in EventLists, other \in Others, off \in 0..frame_seq_len :
          /\ events' = ev
          /\ offset' = off
          /\ indices' = get_event_indices(ev, frame_times)
          /\ sequences' = create_sequences(frames, frame_times, ev, 0, 1, other, off)
    /\ wpc' = "windowed"
    /\ UNCHANGED <<muxVars, normVars, iterVars, args, samples, frames, frame_times>>

NextWin == GetFrames \/ CreateSequences

SpecWin == WinInit /\ [][NextWin]_vars

(* Claims about _get_frames *)

CeilDiv(a, b) == (a + b - 1) \div b
HasPadding(frame) == \E i \in 1..Len(frame) : frame[i] = 0

\* C6: a sample array of length L >= 0 gives ceil(L / hop_length) frames, each
\* of width hop_length, and only the last frame holds zero padding.
C6_FrameCountIsCeil ==
    wpc \in {"framed", "windowed"} =>
        /\ Len(frames) = CeilDiv(Len(samples), args.hop_length)
        /\ \A f \in 1..Len(frames) : Len(frames[f]) = args.hop_length
        /\ \A f \in 1..(Len(frames) - 1) : ~HasPadding(frames[f])

(* Claims about _create_sequences *)

\* the windows whose frame range [frame_start_idx, frame_end_idx) holds frame f
WindowsOf(f) ==
    {k \in 1..Len(sequences) :
        sequences[k].frame_start_idx <= f /\ f < sequences[k].frame_end_idx}

\* C3 as claimed: every frame index in [0, n_frames) belongs to exactly one
\* produced window, whatever offset was drawn.
C3_EveryFrameInOneWindow ==
    wpc = "windowed" => \A f \in 0..(Len(frames) - 1) : Cardinality(WindowsOf(f)) = 1

\* C3 amended: every frame index in [offset, n_frames) belongs to exactly one
\* produced window and the frames before the offset belong to none; each
\* window carries the frames of its range.
C3_FramesFromOffsetInOneWindow ==
    wpc = "windowed" =>
        /\ \A f \in 0..(Len(frames) - 1) :
              Cardinality(WindowsOf(f)) = IF f >= offset THEN 1 ELSE 0
        /\ \A k \in 1..Len(sequences) :
              /\ sequences[k].frame_start_idx < sequences[k].frame_end_idx
              /\ sequences[k].frame_end_idx <= Len(frames)
              /\ Len(sequences[k].frames) =
                    sequences[k].frame_end_idx - sequences[k].frame_start_idx

C3_Witness ==
    /\ wpc = "windowed"
    /\ offset > 0
    /\ Len(sequences) >= 2
    /\ Len(sequences[Len(sequences)].frames) < frame_seq_len

(* Claims about get_event_indices *)

\* the event indices of frame i (0-based): [start_idx(i), end_idx(i))
RangeOf(i) == At(indices.start, i)..(At(indices.end, i) - 1)
FrameIdx == 0..(Len(frames) - 1)
Covered == UNION {RangeOf(i) : i \in FrameIdx}

RangesOrderedAndDisjoint ==
    /\ \A i \in FrameIdx : At(indices.start, i) <= At(indices.end, i)
    /\ \A i, j \in FrameIdx : i # j => RangeOf(i) \cap RangeOf(j) = {}

\* C4 as claimed: for any event list, start_idx(i) <= end_idx(i), the ranges
\* are pairwise disjoint and their union is exactly [0, len(events)).
C4_RangesCoverAllEvents ==
    wpc = "windowed" =>
        /\ RangesOrderedAndDisjoint
        /\ Covered = 0..(Len(events) - 1)

\* the index of the first TIME_SHIFT at or after time t, else of the last event
FirstShiftAtOrAfter(ev, t) ==
    LET hits == {j \in 1..Len(ev) : ev[j].type = "TIME_SHIFT" /\ ev[j].value >= t}
    IN  IF hits = {} THEN Len(ev) - 1
        ELSE (CHOOSE j \in hits : \A h \in hits : j <= h) - 1

\* C4 amended: start_idx(i) <= end_idx(i), the ranges are pairwise disjoint,
\* and their union is [start_idx(0), len(events)), where start_idx(0) is the
\* index of the first TIME_SHIFT at or after the first frame time (of the last
\* event when there is none, -1 for an empty list): the events before it are
\* in no range, and the union is [0, len(events)) exactly when the list
\* begins with a TIME_SHIFT at or after the first frame time.
C4_RangesCoverFromFirstShift ==
    wpc = "windowed" =>
        /\ RangesOrderedAndDisjoint
        /\ Covered = At(indices.start, 0)..(Len(events) - 1)
        /\ At(indices.start, 0) = FirstShiftAtOrAfter(events, At(frame_times, 0))
        /\ (Covered = 0..(Len(events) - 1) /\ events # <<>>) <=>
              (/\ events # <<>>
               /\ \/ (events[1].type = "TIME_SHIFT" /\ events[1].value >= At(frame_times, 0))
                  \/ (Len(events) = 1))

C4_Witness ==
    /\ wpc = "windowed"
    /\ Len(frames) >= 3
    /\ Len(events) = 3
    /\ events[1].type = "CIRCLE"
    /\ events[2] = TS(-1)
    /\ events[3] = TS(2)
    /\ At(indices.start, 0) = 2

(* Claims about the times of the events of a range *)

NonDecreasingShifts(ev) ==
    \A a, b \in 1..Len(ev) :
        (a < b /\ ev[a].type = "TIME_SHIFT" /\ ev[b].type = "TIME_SHIFT") =>
            ev[a].value <= ev[b].value

\* the event time of ev[j] is known and >= t: the value of a TIME_SHIFT, for
\* another event the value of the nearest TIME_SHIFT before it
EventTimeAtLeast(ev, j, t) ==
    LET shifts == {h \in 1..j : ev[h].type = "TIME_SHIFT"}
    IN  /\ shifts # {}
        /\ ev[CHOOSE h \in shifts : \A g \in shifts : g <= h].value >= t

\* C13: for non-decreasing TIME_SHIFT values every event whose index lies in
\* [start_idx(i), end_idx(i)) has an event time >= frame_time(i), also when
\* the event stream ends before the last frame.
C13_RangeEventsNotBeforeFrame ==
    (wpc = "windowed" /\ NonDecreasingShifts(events)) =>
        \A i \in FrameIdx :
            \A k \in RangeOf(i) \cap (0..(Len(events) - 1)) :
                EventTimeAtLeast(events, k + 1, At(frame_times, i))

(* Claims about the pre-context of a window *)

PreAttached == args.add_pre_tokens \/ args.add_pre_tokens_at_step >= 0

\* C14: when pre-context is attached, the pre_events of every window but the
\* first are the events of the window produced just before it, and for every
\* window pre_events followed by events is the slice of the beatmap's event
\* list from the start of the range of the first pre-context frame to the end
\* of the range of the window's last frame, pre_events ending where events
\* begins.
C14_PreContextIsPreviousWindow ==
    (wpc = "windowed" /\ PreAttached) =>
        /\ \A k \in 2..Len(sequences) : sequences[k].pre_events = sequences[k - 1].events
        /\ \A k \in 1..Len(sequences) :
              LET w == sequences[k]
                  lo == Max(At(indices.start, Max(w.frame_start_idx - frame_seq_len, 0)), 0)
                  mid == Max(At(indices.start, w.frame_start_idx), 0)
                  hi == Max(At(indices.end, w.frame_end_idx - 1), 0)
              IN  /\ lo <= mid /\ mid <= hi
                  /\ w.pre_events = SubSeq(events, lo + 1, mid)
                  /\ w.events = SubSeq(events, mid + 1, hi)
                  /\ w.pre_events \o w.events = SubSeq(events, lo + 1, hi)

C14_Witness ==
    /\ wpc = "windowed"
    /\ PreAttached
    /\ Len(sequences) >= 3
    /\ \A k \in 2..3 : sequences[k].pre_events # <<>> /\ sequences[k].events # <<>>

----------------------------------------------------------------------------
(* _trim_time_shifts *)

\* int(x * STEPS_PER_MILLISECOND): int() truncates toward zero
ToStepsIdentity(x) == x
ToSteps(x) ==
    IF x >= 0 THEN x \div MILLISECONDS_PER_STEP ELSE -((-x) \div MILLISECONDS_PER_STEP)

\* the first loop of process: every TIME_SHIFT is replaced by one relative to
\* start_time, in steps
Rescale(ev, st) ==
    [i \in 1..Len(ev) |->
        IF ev[i].type = "TIME_SHIFT" THEN TS(ToSteps(ev[i].value - st)) ELSE ev[i]]

\* the second loop of process, from index i (1-based) down to the first event
RECURSIVE ReverseScan(_, _, _)
ReverseScan(ev, i, delete_next_time_shift) ==
    IF i = 0 THEN ev
    ELSE IF ev[i].type = "TIME_SHIFT" /\ delete_next_time_shift
    THEN ReverseScan(RemoveAt(ev, i), i - 1, FALSE)
    ELSE IF ev[i].type \in AnchorTypes
    THEN ReverseScan(ev, i - 1, TRUE)
    ELSE ReverseScan(ev, i - 1, delete_next_time_shift)

\* the subsequence of ev at the indices in keep
RECURSIVE AtIndices(_, _, _)
AtIndices(ev, keep, i) ==
    IF i > Len(ev) THEN <<>>
    ELSE (IF i \in keep THEN <<ev[i]>> ELSE <<>>) \o AtIndices(ev, keep, i + 1)

processDeletesFollowing(ev, st) ==
    AtIndices(Rescale(ev, st),
              {i \in 1..Len(ev) :
                  ~(ev[i].type = "TIME_SHIFT" /\ i > 1 /\ ev[i - 1].type \in AnchorTypes)},
              1)
process(ev, st) == ReverseScan(Rescale(ev, st), Len(ev), FALSE)

\* sequence["events"], ["pre_events"] and ["other_events"] are processed with
\* the window's time, and "time" is deleted
trim_time_shifts(sequence) ==
    LET st == sequence.time
        keep == DOMAIN sequence \ {"time"}
    IN  [f \in keep |->
            IF f \in {"events", "pre_events", "other_events"}
            THEN process(sequence[f], st)
            ELSE sequence[f]]

MaxNormEvents == 4  \* longest event list normalized

RawTimes == {0, 30, 200}
StartTimes == {0, 20}
NormAlphabet ==
    {TS(t) : t \in RawTimes}
        \cup {Ev("CIRCLE", 0), Ev("RED_ANCHOR", 0), Ev("BEZIER_ANCHOR", 0)}

NormInit ==
    /\ MuxIdle
    /\ WinIdle
    /\ IterIdle
    /\ args = ArgsDefault
    /\ raw_events \in SeqsUpTo(NormAlphabet, MaxNormEvents)
    /\ start_time \in StartTimes
    /\ once = <<>>
    /\ twice = <<>>
    /\ npc = "start"

\* the TimeNormalizer on a window's event list
Normalize ==
    /\ npc = "start"
    /\ once' = process(raw_events, start_time)
    /\ npc' = "normalized"
    /\ UNCHANGED <<muxVars, winVars, iterVars, args, raw_events, start_time, twice>>

\* the TimeNormalizer run again, on its own output, with start_time = 0
Renormalize ==
    /\ npc = "normalized"
    /\ twice' = process(once, 0)
    /\ npc' = "renormalized"
    /\ UNCHANGED <<muxVars, winVars, iterVars, args, raw_events, start_time, once>>

NextNorm == Normalize \/ Renormalize

SpecNorm == NormInit /\ [][NextNorm]_vars

(* Claims about _trim_time_shifts.process *)

RECURSIVE NonShifts(_)
NonShifts(ev) ==
    IF ev = <<>> THEN <<>>
    ELSE IF Head(ev).type = "TIME_SHIFT" THEN NonShifts(Tail(ev))
    ELSE <<Head(ev)>> \o NonShifts(Tail(ev))

\* event i of ev is a TIME_SHIFT with an anchor between it and the next TIME_SHIFT
ShiftBeforeAnchor(ev, i) ==
    /\ ev[i].type = "TIME_SHIFT"
    /\ \E j \in (i + 1)..Len(ev) :
          /\ ev[j].type \in AnchorTypes
          /\ \A k \in (i + 1)..(j - 1) : ev[k].type # "TIME_SHIFT"

\* C10 as claimed: process with start_time = 0 on an already-normalized event
\* list returns the same event list.
C10_RerunIsNoOp == npc = "renormalized" => twice = once

\* C10 amended: the re-run keeps the events that are not TIME_SHIFT, in their
\* order, and never lengthens the list, but it rewrites every TIME_SHIFT value
\* v to int(v * 0.1) and deletes a TIME_SHIFT that still precedes an anchor:
\* it is a no-op exactly when every TIME_SHIFT of the normalized list has
\* value 0 and none of them precedes an anchor.
C10_RerunNoOpOnlyAtZero ==
    npc = "renormalized" =>
        /\ NonShifts(twice) = NonShifts(once)
        /\ Len(twice) <= Len(once)
        /\ twice = once <=>
              \A i \in 1..Len(once) :
                  once[i].type = "TIME_SHIFT" =>
                      once[i].value = 0 /\ ~ShiftBeforeAnchor(once, i)

C10_Witness ==
    /\ npc = "renormalized"
    /\ raw_events = <<TS(200), TS(200), Ev("RED_ANCHOR", 0), TS(200)>>
    /\ start_time = 0
    /\ once = <<TS(20), Ev("RED_ANCHOR", 0), TS(20)>>
    /\ twice = <<Ev("RED_ANCHOR", 0), TS(2)>>

\* the TIME_SHIFT events right after an anchor
ShiftAfterAnchor(ev, i) ==
    ev[i].type = "TIME_SHIFT" /\ i > 1 /\ ev[i - 1].type \in AnchorTypes

\* the events of raw_events with only their time rewritten, the deleted left out
KeptRescaled(deleted) ==
    AtIndices([i \in 1..Len(raw_events) |->
                  IF raw_events[i].type = "TIME_SHIFT"
                  THEN TS(ToSteps(raw_events[i].value - start_time))
                  ELSE raw_events[i]],
              (1..Len(raw_events)) \ deleted, 1)

\* C11 as claimed: the TIME_SHIFT events process deletes are exactly those
\* that immediately follow an anchor; every other event, a TIME_SHIFT that
\* precedes an anchor included, is kept in its order.
C11_DeletesShiftAfterAnchor ==
    npc \in {"normalized", "renormalized"} =>
        once = KeptRescaled({i \in 1..Len(raw_events) : ShiftAfterAnchor(raw_events, i)})

\* C11 amended: the TIME_SHIFT events process deletes are exactly those that
\* precede an anchor with no other TIME_SHIFT in between (the nearest
\* TIME_SHIFT before an anchor, one per run of anchors); every other event, a
\* TIME_SHIFT that immediately follows an anchor included, is kept in its
\* order.
C11_DeletesShiftBeforeAnchor ==
    npc \in {"normalized", "renormalized"} =>
        once = KeptRescaled({i \in 1..Len(raw_events) : ShiftBeforeAnchor(raw_events, i)})

C11_Witness ==
    /\ npc = "normalized"
    /\ start_time = 0
    /\ raw_events = <<TS(30), Ev("CIRCLE", 0), Ev("RED_ANCHOR", 0), TS(200)>>
    /\ once = <<Ev("CIRCLE", 0), Ev("RED_ANCHOR", 0), TS(20)>>

----------------------------------------------------------------------------
(* The Tokenizer the dataset is handed (osuT5.tokenizer): reserved ids, one  *)
(* id range per event type, then the style ids and the difficulty ids        *)

pad_id == 0
sos_id == 1
eos_id == 2
MinShift == -2          \* smallest TIME_SHIFT value with an id
NumShifts == 5          \* TIME_SHIFT values with an id: MinShift .. MinShift + NumShifts - 1
num_classes == 2
NumDiffs == 2

OtherTypes == <<"CIRCLE", "BEZIER_ANCHOR", "PERFECT_ANCHOR", "CATMULL_ANCHOR", "RED_ANCHOR">>
TypePos(t) == CHOOSE k \in 1..Len(OtherTypes) : OtherTypes[k] = t

\* event_start[type], event_end[type]: half-open id ranges
event_start(t) ==
    IF t = "TIME_SHIFT" THEN eos_id + 1 ELSE eos_id + NumShifts + TypePos(t)
event_end(t) ==
    IF t = "TIME_SHIFT" THEN eos_id + 1 + NumShifts ELSE event_start(t) + 1

encode(e) ==
    IF e.type = "TIME_SHIFT" THEN event_start(e.type) + (e.value - MinShift)
    ELSE event_start(e.type)

StyleStart == event_end("RED_ANCHOR")
encode_style_idx(idx) == StyleStart + idx
style_unk == StyleStart + num_classes
DiffStart == style_unk + 1
encode_diff(d) == DiffStart + d
diff_unk == DiffStart + NumDiffs

----------------------------------------------------------------------------
(* _tokenize_sequence *)

\* random.random() >= prob, with both in percent: random() is in [0, 1)
RandomDraws == {0, 99}

\* the probability _tokenize_sequence drops the class with
ClassDropoutProb == args.class_dropout_prob
DiffDropoutProb == args.diff_dropout_prob

EncodeAll(ev) == [i \in 1..Len(ev) |-> encode(ev[i])]

\* r: the random.random() draws, in the order the code makes them
tokenize_sequence(sequence, r) ==
    LET has_pre == "pre_events" \in DOMAIN sequence
        has_other == "other_events" \in DOMAIN sequence
        kept == [f \in DOMAIN sequence \ {"events", "pre_events", "other_events"} |->
                    sequence[f]]
        main == [tokens |-> <<sos_id>> \o EncodeAll(sequence.events) \o <<eos_id>>,
                 beatmap_idx_token |->
                     IF r.style >= ClassDropoutProb
                     THEN encode_style_idx(sequence.beatmap_idx) ELSE style_unk,
                 difficulty_token |->
                     IF r.diff >= DiffDropoutProb
                     THEN encode_diff(sequence.difficulty) ELSE diff_unk,
                 beatmap_idx |->
                     IF r.idx >= ClassDropoutProb
                     THEN sequence.beatmap_idx ELSE num_classes]
        pre == IF has_pre THEN [pre_tokens |-> EncodeAll(sequence.pre_events)] @@ main
               ELSE main
        oth == IF has_other
               THEN [other_tokens |-> EncodeAll(sequence.other_events),
                     other_beatmap_idx_token |->
                         IF r.other_style >= ClassDropoutProb
                         THEN encode_style_idx(sequence.other_beatmap_idx) ELSE style_unk,
                     other_difficulty_token |->
                         IF r.other_diff >= DiffDropoutProb
                         THEN encode_diff(sequence.other_difficulty) ELSE diff_unk] @@ pre
               ELSE pre
    IN  oth @@ kept

----------------------------------------------------------------------------
(* _pad_frame_sequence *)

RECURSIVE Flatten(_)
Flatten(rows) == IF rows = <<>> THEN <<>> ELSE Head(rows) \o Flatten(Tail(rows))

\* frames.shape[-1]: the frames of _get_frames are hop_length wide
FrameWidth == args.hop_length

PaddedRows(fr) ==
    IF Len(fr) # frame_seq_len
    THEN LET n == Min(frame_seq_len, Len(fr))
         IN  [k \in 1..frame_seq_len |->
                IF k <= n THEN fr[k] ELSE [i \in 1..FrameWidth |-> 0]]
    ELSE fr

pad_frame_sequence(sequence) ==
    [sequence EXCEPT !.frames = Flatten(PaddedRows(sequence.frames))]

----------------------------------------------------------------------------
(* _pad_and_split_token_sequence *)

\* buf[i] = v for a 0-based index i inside the buffer
PutAt(buf, i, v) == [buf EXCEPT ![i + 1] = v]

\* buf[a:a + len(src)] = src, 0-based
PutSlice(buf, a, src) ==
    [k \in 1..Len(buf) |->
        IF a + 1 <= k /\ k <= a + Len(src) THEN src[k - a] ELSE buf[k]]

\* n, m, o and start_index, from len(tokens), num_pre_tokens and num_other_tokens
PackCountsNoBudget(num_tokens, num_pre_tokens, num_other_tokens) ==
    LET stl == args.special_token_len
        tgt == args.tgt_seq_len
    IN  IF args.center_pad_decoder
        THEN LET n == Min(tgt - pre_token_len, num_tokens - 1)
                 m == Min(pre_token_len - stl, num_pre_tokens)
                 o == Min(pre_token_len - stl, num_other_tokens)
             IN  [n |-> n, m |-> m, o |-> o, start_index |-> pre_token_len - m - stl - o]
        ELSE LET n == Min(tgt - stl, num_tokens - 1)
                 m == Min(tgt - stl, num_pre_tokens)
                 o == Min(tgt - stl, num_other_tokens)
             IN  [n |-> n, m |-> m, o |-> o, start_index |-> 0]
PackCounts(num_tokens, num_pre_tokens, num_other_tokens) ==
    LET stl == args.special_token_len
        tgt == args.tgt_seq_len
    IN  IF args.center_pad_decoder
        THEN LET n == Min(tgt - pre_token_len, num_tokens - 1)
                 m == Min(pre_token_len - stl, num_pre_tokens)
                 o == Min(pre_token_len - m - stl, num_other_tokens)
             IN  [n |-> n, m |-> m, o |-> o, start_index |-> pre_token_len - m - stl - o]
        ELSE LET n == Min(tgt - stl - Min(min_pre_token_len, num_pre_tokens),
                          num_tokens - 1)
                 m == Min(tgt - n - stl, num_pre_tokens)
                 o == Min(tgt - n - stl - m, num_other_tokens)
             IN  [n |-> n, m |-> m, o |-> o, start_index |-> 0]

\* num_pre_tokens: the pre tokens count only under args.add_pre_tokens
NumPreTokens(pre_tokens) ==
    LET num == IF args.add_pre_tokens THEN Len(pre_tokens) ELSE 0
    IN  IF args.max_pre_token_len > 0 THEN Min(num, args.max_pre_token_len) ELSE num

\* tokens[1:n + 1], the labels of the main segment
LabelSourceUnshifted(tokens, n) == PySlice(tokens, 0, n)
LabelSource(tokens, n) == PySlice(tokens, 1, n + 1)

\* torch.where(in the TIME_SHIFT range, clamp(token + offset), token)
JitterToken(tok, off) ==
    IF event_start("TIME_SHIFT") <= tok /\ tok < event_end("TIME_SHIFT")
    THEN Max(event_start("TIME_SHIFT"), Min(tok + off, event_end("TIME_SHIFT") - 1))
    ELSE tok

\* the side tokens of one segment, written at start + the configured offsets
PutSideTokens(buf, start, difficulty_token, style_token) ==
    LET withDiff == IF args.diff_token_index >= 0
                    THEN PutAt(buf, start + args.diff_token_index, difficulty_token)
                    ELSE buf
    IN  IF args.style_token_index >= 0
        THEN PutAt(withDiff, start + args.style_token_index, style_token)
        ELSE withDiff

\* the counts of a tokenized sequence
CountsOf(sequence) ==
    LET has_other == "other_tokens" \in DOMAIN sequence
        pre_tokens == IF "pre_tokens" \in DOMAIN sequence THEN sequence.pre_tokens ELSE <<>>
    IN  PackCounts(Len(sequence.tokens), NumPreTokens(pre_tokens),
                   IF has_other THEN Len(sequence.other_tokens) + args.special_token_len
                   ELSE 0)

\* jitter: the offset random.randint(-timing_random_offset, frame_seq_len) drew
pad_and_split_token_sequence(sequence, jitter) ==
    LET stl == args.special_token_len
        tokens == sequence.tokens
        has_other == "other_tokens" \in DOMAIN sequence
        pre_tokens == IF "pre_tokens" \in DOMAIN sequence THEN sequence.pre_tokens ELSE <<>>
        other_tokens == IF has_other THEN sequence.other_tokens ELSE <<>>
        c == CountsOf(sequence)
        n == c.n
        m == c.m
        o == c.o
        input0 == [k \in 1..args.tgt_seq_len |-> pad_id]
        label0 == [k \in 1..args.tgt_seq_len |-> LABEL_IGNORE_ID]
        input1 == IF o > 0
                  THEN LET side == PutSideTokens(input0, c.start_index,
                                                 sequence.other_difficulty_token,
                                                 sequence.other_beatmap_idx_token)
                       IN  IF o > stl
                           THEN PutSlice(side, c.start_index + stl,
                                         PySlice(other_tokens, 0, o - stl))
                           ELSE side
                  ELSE input0
        start_index == c.start_index + o
        input2 == PutSideTokens(input1, start_index, sequence.difficulty_token,
                                sequence.beatmap_idx_token)
        input3 == IF m > 0
                  THEN PutSlice(input2, start_index + stl,
                                PySlice(pre_tokens, -m, Len(pre_tokens)))
                  ELSE input2
        input4 == PutSlice(input3, start_index + m + stl, PySlice(tokens, 0, n))
        labels == PutSlice(label0, start_index + m + stl, LabelSource(tokens, n))
        input5 == IF args.timing_random_offset > 0
                  THEN [k \in 1..Len(input4) |-> JitterToken(input4[k], jitter)]
                  ELSE input4
        removed == {"tokens", "pre_tokens", "difficulty_token", "beatmap_idx_token",
                    "difficulty", "other_tokens", "other_difficulty_token",
                    "other_beatmap_idx_token", "other_difficulty", "other_beatmap_idx"}
    IN  [decoder_input_ids |-> input5,
         decoder_attention_mask |-> [k \in 1..Len(input5) |-> input5[k] # pad_id],
         labels |-> labels]
        @@ [f \in DOMAIN sequence \ removed |-> sequence[f]]

\* the offsets random.randint(-timing_random_offset, frame_seq_len) can draw
JitterDraws ==
    IF args.timing_random_offset > 0
    THEN (-args.timing_random_offset)..frame_seq_len
    ELSE {0}

----------------------------------------------------------------------------
(* Packing, on tokenized sequences drawn from bounded sets *)

MaxMain == 3    \* most event tokens between [SOS] and [EOS]
MaxPre == 5     \* most pre tokens
MaxOther == 3   \* most guide tokens

PackTokenAlphabet == {encode(TS(1)), encode(Ev("CIRCLE", 0))}
\* the j-th pre token and the j-th guide token of the drawn sequences
PreToken(j) == IF j % 2 = 1 THEN encode(TS(-(j % 3))) ELSE encode(Ev("RED_ANCHOR", 0))
OtherToken(j) == IF j % 2 = 1 THEN encode(TS(j % 3)) ELSE encode(Ev("CIRCLE", 0))

TokenizedBase ==
    {[tokens |-> <<sos_id>> \o body \o <<eos_id>>,
      frames |-> [k \in 1..rows |-> [i \in 1..FrameWidth |-> 1]],
      beatmap_idx |-> 0, difficulty |-> 1,
      beatmap_idx_token |-> encode_style_idx(0), difficulty_token |-> encode_diff(1)] :
        body \in SeqsUpTo(PackTokenAlphabet, MaxMain), rows \in 1..frame_seq_len}

WithPreTokens(S) ==
    S \cup {[pre_tokens |-> [j \in 1..k |-> PreToken(j)]] @@ q : q \in S, k \in 0..MaxPre}

WithOtherTokens(S) ==
    S \cup {[other_tokens |-> [j \in 1..k |-> OtherToken(j)],
             other_beatmap_idx |-> 1, other_difficulty |-> 0,
             other_beatmap_idx_token |-> encode_style_idx(1),
             other_difficulty_token |-> encode_diff(0)] @@ q : q \in S, k \in 0..MaxOther}

TokenizedSequences == WithOtherTokens(WithPreTokens(TokenizedBase))

PackArgs ==
    {[ArgsDefault EXCEPT !.center_pad_decoder = c, !.add_pre_tokens = p,
                         !.max_pre_token_len = x, !.timing_random_offset = t,
                         !.tgt_seq_len = g, !.special_token_len = side[1],
                         !.diff_token_index = side[2], !.style_token_index = side[3]] :
        c \in BOOLEAN, p \in BOOLEAN, x \in {0, 2}, t \in {0, 1}, g \in {8, 9},
        side \in {<<2, 0, 1>>, <<1, -1, 0>>}}

PackInit ==
    /\ MuxIdle
    /\ WinIdle
    /\ NormIdle
    /\ args \in PackArgs
    /\ test = FALSE /\ shared = NoShared
    /\ class_dropout_prob = args.class_dropout_prob
    /\ diff_dropout_prob = args.diff_dropout_prob
    /\ add_pre_tokens = args.add_pre_tokens
    /\ add_empty_sequences = args.add_empty_sequences
    /\ window = <<>> /\ example = <<>> /\ locals = NoLocals
    /\ ipc = "tokenized"

\* sequence = self._pad_frame_sequence(sequence)
\* sequence = self._pad_and_split_token_sequence(sequence)
Pack ==
    /\ ipc = "tokenized"
    /\ \E sequence \in TokenizedSequences, jitter \in JitterDraws :
          /\ window' = sequence
          /\ example' = pad_and_split_token_sequence(pad_frame_sequence(sequence), jitter)
          /\ locals' = [jitter |-> jitter] @@ CountsOf(sequence)
    /\ ipc' = "packed"
    /\ UNCHANGED <<muxVars, winVars, normVars, args, test, shared, class_dropout_prob,
                   diff_dropout_prob, add_pre_tokens, add_empty_sequences>>

NextPack == Pack

SpecPack == PackInit /\ [][NextPack]_vars

(* Claims about _pad_and_split_token_sequence and _pad_frame_sequence *)

\* C7: in both packing modes and for every combination of main, pre and guide
\* token counts, n, m, o and start_index are >= 0 and start_index + o +
\* special_token_len + m + n <= tgt_seq_len, decoder_input_ids, labels and
\* decoder_attention_mask are tgt_seq_len long and the flattened frames are
\* frame_seq_len * hop_length long.
C7_PackingStaysInBuffer ==
    ipc = "packed" =>
        /\ locals.n >= 0 /\ locals.m >= 0 /\ locals.o >= 0 /\ locals.start_index >= 0
        /\ locals.start_index + locals.o + args.special_token_len + locals.m + locals.n
              <= args.tgt_seq_len
        /\ Len(example.decoder_input_ids) = args.tgt_seq_len
        /\ Len(example.labels) = args.tgt_seq_len
        /\ Len(example.decoder_attention_mask) = args.tgt_seq_len
        /\ Len(example.frames) = frame_seq_len * args.hop_length

C7_Witness ==
    /\ ipc = "packed"
    /\ ~args.center_pad_decoder
    /\ locals.o > args.special_token_len
    /\ locals.m > 0
    /\ locals.n > 1
    /\ locals.o < Len(window.other_tokens) + args.special_token_len
    /\ locals.o + args.special_token_len + locals.m + locals.n = args.tgt_seq_len
    /\ Len(window.frames) < frame_seq_len

Labelled(i) == example.labels[i] # LABEL_IGNORE_ID
LastLabelled(i) == Labelled(i) /\ (i = Len(example.labels) \/ ~Labelled(i + 1))

\* C5 as claimed: at every position i where labels[i] is not the ignore
\* marker, labels[i] equals the token at decoder_input_ids[i + 1], the last
\* labelled position of the main segment included.
C5_LabelIsNextInput ==
    ipc = "packed" =>
        \A i \in 1..Len(example.labels) :
            Labelled(i) =>
                /\ i + 1 <= Len(example.decoder_input_ids)
                /\ example.labels[i] = example.decoder_input_ids[i + 1]

\* where the main segment begins (1-based position of tokens[0])
MainBase == locals.start_index + locals.o + args.special_token_len + locals.m

Jittered(tok) ==
    IF args.timing_random_offset > 0 THEN JitterToken(tok, locals.jitter) ELSE tok

\* C5 amended: the labelled positions are those of the main segment; there
\* labels[i] is the main token after the one decoder_input_ids[i] holds
\* (tokens[j + 1] where the input holds tokens[j], jittered if it is a
\* TIME_SHIFT id and timing_random_offset > 0). At every labelled position
\* but the last, decoder_input_ids[i + 1] is labels[i] (jittered likewise);
\* at the last one decoder_input_ids[i + 1] is the pad id or past the buffer.
C5_LabelFollowsInput ==
    ipc = "packed" =>
        /\ \A i \in 1..Len(example.labels) :
              Labelled(i) <=> (MainBase < i /\ i <= MainBase + locals.n)
        /\ \A j \in 1..locals.n :
              /\ example.labels[MainBase + j] = window.tokens[j + 1]
              /\ example.decoder_input_ids[MainBase + j] = Jittered(window.tokens[j])
        /\ \A i \in 1..Len(example.labels) :
              /\ (Labelled(i) /\ ~LastLabelled(i)) =>
                    example.decoder_input_ids[i + 1] = Jittered(example.labels[i])
              /\ LastLabelled(i) =>
                    \/ i = Len(example.labels)
                    \/ example.decoder_input_ids[i + 1] = pad_id

C5_Witness ==
    /\ ipc = "packed"
    /\ locals.n = 3
    /\ locals.n = Len(window.tokens) - 1
    /\ args.timing_random_offset > 0
    /\ locals.jitter = 2
    /\ MainBase + 4 <= args.tgt_seq_len
    /\ example.labels[MainBase + 1] = encode(TS(1))
    /\ example.decoder_input_ids[MainBase + 2] = encode(TS(2))
    /\ example.decoder_input_ids[MainBase + 4] = pad_id

----------------------------------------------------------------------------
(* BeatmapDatasetIterable: __init__, maybe_change_dataset and the loop of    *)
(* _get_next_beatmap                                                         *)

MaxStep == 2        \* largest current_train_step the trainer sets
MaxIterEvents == 2  \* most events in one window

\* self.add_empty_sequences and self.add_pre_tokens after maybe_change_dataset
MaybeChangeFollowsStep(flags) ==
    IF shared.is_none THEN flags
    ELSE LET step == shared.current_train_step
         IN  [add_empty_sequences |->
                  0 <= args.add_empty_sequences_at_step
                      /\ args.add_empty_sequences_at_step <= step,
              add_pre_tokens |->
                  0 <= args.add_pre_tokens_at_step /\ args.add_pre_tokens_at_step <= step]
maybe_change_dataset(flags) ==
    IF shared.is_none THEN flags
    ELSE LET step == shared.current_train_step
         IN  [add_empty_sequences |->
                  IF 0 <= args.add_empty_sequences_at_step
                        /\ args.add_empty_sequences_at_step <= step
                        /\ ~flags.add_empty_sequences
                  THEN TRUE ELSE flags.add_empty_sequences,
              add_pre_tokens |->
                  IF 0 <= args.add_pre_tokens_at_step
                        /\ args.add_pre_tokens_at_step <= step
                        /\ ~flags.add_pre_tokens
                  THEN TRUE ELSE flags.add_pre_tokens]

\* ((labels == eos_id) | (labels == pad_id)).all()
AllEosOrPad(labels) ==
    \A k \in 1..Len(labels) : labels[k] = eos_id \/ labels[k] = pad_id

\* the window the loop hands on, before the filter
Packed(sequence, r, jitter) ==
    pad_and_split_token_sequence(
        pad_frame_sequence(tokenize_sequence(trim_time_shifts(sequence), r)), jitter)

\* the counts of the packing of a window
PackedCounts(sequence, r) ==
    CountsOf(pad_frame_sequence(tokenize_sequence(trim_time_shifts(sequence), r)))

\* the windows _create_sequences hands the loop: they start at 20 ms
WindowTime == 2 * MILLISECONDS_PER_STEP
IterAlphabet == {TS(WindowTime), TS(WindowTime + 10), Ev("CIRCLE", 0)}
IterPreLists == {<<>>, <<TS(0), Ev("CIRCLE", 0), TS(10)>>}

IterWindows ==
    LET base == {[time |-> WindowTime,
                  frames |-> [k \in 1..rows |-> [i \in 1..FrameWidth |-> 1]],
                  events |-> ev, beatmap_idx |-> b, difficulty |-> 1] :
                    ev \in SeqsUpTo(IterAlphabet, MaxIterEvents),
                    rows \in {frame_seq_len}, b \in {1}}
    IN  IF args.add_pre_tokens \/ args.add_pre_tokens_at_step >= 0
        THEN {[pre_events |-> pre] @@ q : q \in base, pre \in IterPreLists}
        ELSE base

Draws == [style : RandomDraws, diff : {0}, idx : RandomDraws, other_style : {0},
          other_diff : {0}]

IterArgs ==
    {[ArgsDefault EXCEPT !.center_pad_decoder = c,
                         !.add_pre_tokens = pre[1], !.add_pre_tokens_at_step = pre[2],
                         !.add_empty_sequences = emp[1],
                         !.add_empty_sequences_at_step = emp[2],
                         !.class_dropout_prob = d] :
        c \in BOOLEAN,
        pre \in {<<FALSE, -1>>, <<FALSE, 1>>, <<TRUE, -1>>},
        emp \in {<<FALSE, -1>>, <<FALSE, 1>>, <<TRUE, -1>>},
        d \in {0, 50, 100}}

\* BeatmapDatasetIterable.__init__
IterInit ==
    /\ MuxIdle
    /\ WinIdle
    /\ NormIdle
    /\ args \in IterArgs
    /\ test \in BOOLEAN
    /\ shared \in {NoShared}
          \cup {[is_none |-> FALSE, current_train_step |-> st] : st \in 0..MaxStep}
    /\ class_dropout_prob = IF test THEN 100 ELSE args.class_dropout_prob
    /\ diff_dropout_prob = IF test THEN 0 ELSE args.diff_dropout_prob
    /\ add_pre_tokens = args.add_pre_tokens
    /\ add_empty_sequences = args.add_empty_sequences
    /\ window = <<>> /\ example = <<>> /\ locals = NoLocals
    /\ ipc = "loop"

\* the owning trainer sets shared.current_train_step
TrainerStep ==
    /\ ipc \in {"loop", "yielded", "skipped"}
    /\ ~shared.is_none
    /\ \E st \in 0..MaxStep :
          /\ st # shared.current_train_step
          /\ shared' = [shared EXCEPT !.current_train_step = st]
    /\ UNCHANGED <<muxVars, winVars, normVars, args, test, class_dropout_prob,
                   diff_dropout_prob, add_pre_tokens, add_empty_sequences, window,
                   example, locals, ipc>>

\* one pass of the body of `for sequence in sequences`, up to the continue or
\* the yield
ProcessWindow ==
    /\ ipc = "loop"
    /\ \E sequence \in IterWindows, r \in Draws, jitter \in JitterDraws :
          LET flags == maybe_change_dataset(
                           [add_empty_sequences |-> add_empty_sequences,
                            add_pre_tokens |-> add_pre_tokens])
              out == Packed(sequence, r, jitter)
          IN  /\ add_empty_sequences' = flags.add_empty_sequences
              /\ add_pre_tokens' = flags.add_pre_tokens
              /\ window' = sequence
              /\ example' = out
              /\ locals' = [jitter |-> jitter] @@ PackedCounts(sequence, r)
              /\ ipc' = IF ~flags.add_empty_sequences /\ AllEosOrPad(out.labels)
                        THEN "skipped" ELSE "yielded"
    /\ UNCHANGED <<muxVars, winVars, normVars, args, test, shared, class_dropout_prob,
                   diff_dropout_prob>>

\* the loop goes on: after the continue at once, after the yield when the
\* consumer asks for the next example
Resume ==
    /\ ipc \in {"yielded", "skipped"}
    /\ window' = <<>> /\ example' = <<>> /\ locals' = NoLocals
    /\ ipc' = "loop"
    /\ UNCHANGED <<muxVars, winVars, normVars, args, test, shared, class_dropout_prob,
                   diff_dropout_prob, add_pre_tokens, add_empty_sequences>>

NextIter == TrainerStep \/ ProcessWindow \/ Resume

SpecIter == IterInit /\ [][NextIter]_vars

(* Claims about the loop of _get_next_beatmap *)

IsEventLabel(tok) == tok # LABEL_IGNORE_ID /\ tok # pad_id /\ tok # eos_id

\* C2: while add_empty_sequences is false no emitted example has a label array
\* without any event token (a window packed from tokens = [SOS, EOS] is
\* discarded), and when the flag is true such a window is emitted.
C2_EmptyWindowsFiltered ==
    /\ (ipc = "yielded" /\ ~add_empty_sequences) =>
          \E k \in 1..Len(example.labels) : IsEventLabel(example.labels[k])
    /\ (ipc \in {"yielded", "skipped"} /\ add_empty_sequences /\ window.events = <<>>) =>
          ipc = "yielded"

\* the 1-based position of the class id of the main segment
ClassSlot == locals.start_index + locals.o + args.style_token_index + 1

\* C8: an iterator constructed in test mode emits only examples with
\* style_unk in the class-id slot and beatmap_idx = num_classes, whatever
\* the configured class_dropout_prob.
C8_TestModeDropsClass ==
    (ipc = "yielded" /\ test) =>
        /\ example.decoder_input_ids[ClassSlot] = style_unk
        /\ example.beatmap_idx = num_classes

ThresholdReached(at_step) ==
    ~shared.is_none /\ 0 <= at_step /\ at_step <= shared.current_train_step

WindowProcessed == ipc = "loop" /\ ipc' \in {"yielded", "skipped"}

CurriculumStep ==
    /\ add_empty_sequences => add_empty_sequences'
    /\ add_pre_tokens => add_pre_tokens'
    /\ WindowProcessed =>
          /\ shared' = shared
          /\ ThresholdReached(args.add_empty_sequences_at_step) => add_empty_sequences'
          /\ ThresholdReached(args.add_pre_tokens_at_step) => add_pre_tokens'
    /\ (add_empty_sequences' /\ ~add_empty_sequences) =>
          WindowProcessed /\ ThresholdReached(args.add_empty_sequences_at_step)
    /\ (add_pre_tokens' /\ ~add_pre_tokens) =>
          WindowProcessed /\ ThresholdReached(args.add_pre_tokens_at_step)

\* C9: whatever values current_train_step takes, add_empty_sequences and
\* add_pre_tokens never go from true back to false; a flag becomes true at
\* the first window processed while its threshold is >= 0 and <= the step;
\* processing a window never writes the shared counter.
C9_CurriculumFlagsOneWay == [][CurriculumStep]_vars

\* a flag that was switched on stays on after the step fell below the threshold
C9_Witness ==
    /\ ipc = "yielded"
    /\ ~args.add_empty_sequences /\ add_empty_sequences
    /\ ~args.add_pre_tokens /\ add_pre_tokens
    /\ ~ThresholdReached(args.add_empty_sequences_at_step)
    /\ ~ThresholdReached(args.add_pre_tokens_at_step)

\* C12: with add_pre_tokens configured false and add_pre_tokens_at_step >= 0,
\* every window processed once the step has reached the threshold (the
\* iterator's add_pre_tokens flag is true) whose normalized pre-context event
\* list is not empty is packed with at least one pre-context token (m > 0).
C12_CurriculumAddsPreTokens ==
    (/\ ipc \in {"yielded", "skipped"}
     /\ ~args.add_pre_tokens /\ args.add_pre_tokens_at_step >= 0
     /\ add_pre_tokens
     /\ process(window.pre_events, window.time) # <<>>) => locals.m > 0

====
